---- MODULE Spec2Model ----
(***************************************************************************)
(* Model of main.py, a CI step that triggers a Buildkite pipeline over      *)
(* HTTP, optionally waits for the build to finish, and reports the result.  *)
(*                                                                         *)
(* Conventions.                                                            *)
(*  - A Python str that the program takes apart (pipeline identifier, git   *)
(*    ref, branch) is a sequence of one-character strings.  A URL is a      *)
(*    sequence of chunks (literal pieces and characters).  Strings that     *)
(*    are only passed around are TLA+ strings.                              *)
(*  - A Python dict is a function; a missing key is a key outside DOMAIN.   *)
(*  - A JSON value is a tagged record: JNull, JStr(s), JNum(n).  Python     *)
(*    None is JNull (json.loads maps null to None).                         *)
(*  - The result of a call that may raise is Ok(v) or Raise(exc).           *)
(*  - Responses of the remote API are well-formed build descriptors (the    *)
(*    keys id, number, url, web_url, state, and optionally finished_at) or  *)
(*    a transport error; which one arrives is the environment's choice.     *)
(***************************************************************************)
EXTENDS Integers, Sequences, FiniteSets, TLC

(***************************************************************************)
(* Bounds of the model                                                     *)
(***************************************************************************)
MaxPolls == 3      \* polls of the wait loop explored
MaxLen == 5        \* length of the pipeline identifiers enumerated
MaxTail == 2       \* length of the part of a git ref after its prefix
MaxNoticePolls == 6  \* polls explored where the progress notices are studied

(***************************************************************************)
(* Program constants                                                       *)
(***************************************************************************)
SleepSecs == 15
NoticeSecs == 60
HttpTimeout == 10

(***************************************************************************)
(* Python values                                                           *)
(***************************************************************************)
EmptyDict == [k \in {} |-> 0]

JNull == [t |-> "null"]
JStr(s) == [t |-> "str", v |-> s]
JNum(n) == [t |-> "num", v |-> n]

\* bool(v) taken to be v is not None
Truthy_NotNone(v) == v.t # "null"

\* bool(v) of a JSON value
Truthy(v) ==
    CASE v.t = "null" -> FALSE
      [] v.t = "str" -> v.v # ""
      [] v.t = "num" -> v.v # 0

\* dict.get(k) of a dict of JSON values
Get(d, k) == IF k \in DOMAIN d THEN d[k] ELSE JNull

Ok(v) == [exc |-> "", val |-> v]
Raise(e) == [exc |-> e]

\* str.startswith on character sequences
StartsWith(s, p) == Len(s) >= Len(p) /\ SubSeq(s, 1, Len(p)) = p

\* s[n:]
Drop(s, n) == SubSeq(s, n + 1, Len(s))

\* str.lower() on the flag values the model uses
Lower(s) ==
    CASE s = "TRUE" -> "true"
      [] s = "True" -> "true"
      [] s = "FALSE" -> "false"
      [] OTHER -> s

\* env.get(k) is truthy, for a key holding a character sequence
EnvTruthy(e, k) == k \in DOMAIN e /\ e[k] # <<>>

\* env.get(k) is truthy, for a key holding a TLA+ string
EnvTruthyStr(e, k) == k \in DOMAIN e /\ e[k] # ""

(***************************************************************************)
(* Context resolution: ActionContext.from_env                              *)
(***************************************************************************)
RefsHeads == <<"r", "e", "f", "s", "/", "h", "e", "a", "d", "s", "/">>

\* __branch with the ref looked at before the head ref
Branch_RefFirst(e) ==
    IF "GITHUB_REF" \in DOMAIN e /\ StartsWith(e["GITHUB_REF"], RefsHeads)
    THEN Ok(Drop(e["GITHUB_REF"], Len(RefsHeads)))
    ELSE IF EnvTruthy(e, "GITHUB_HEAD_REF") THEN Ok(e["GITHUB_HEAD_REF"])
    ELSE IF "GITHUB_REF" \notin DOMAIN e THEN Raise("KeyError")
    ELSE Ok(e["GITHUB_REF"])

\* ActionContext.__branch
Branch(e) ==
    IF EnvTruthy(e, "GITHUB_HEAD_REF") THEN Ok(e["GITHUB_HEAD_REF"])
    ELSE IF "GITHUB_REF" \notin DOMAIN e THEN Raise("KeyError")
    ELSE LET git_ref == e["GITHUB_REF"]
             prefix == RefsHeads
         IN  IF StartsWith(git_ref, prefix)
             THEN Ok(Drop(git_ref, Len(prefix)))
             ELSE Ok(git_ref)

\* ActionContext.__pull_request_context; a pull_request entry of the event
\* is flattened to [number, base_ref, git_url]
PullRequestContextOf(event) ==
    IF "pull_request" \in DOMAIN event
    THEN [number |-> event["pull_request"].number,
          base_branch |-> event["pull_request"].base_ref,
          repository |-> event["pull_request"].git_url]
    ELSE JNull

\* json.loads(env.get("INPUT_ENV") or "{}") on the inputs the model uses
LoadsEnv(s) ==
    CASE s = "{}" -> Ok(EmptyDict)
      [] s = "{\"A\":\"1\"}" -> Ok([A |-> "1"])
      [] OTHER -> Raise("JSONDecodeError")

\* the keyword arguments are evaluated in the order they are written; the
\* first one that raises decides the exception
from_env(e, file) ==
    IF "GITHUB_EVENT_PATH" \notin DOMAIN e THEN Raise("KeyError")
    ELSE IF ~file.exists THEN Raise("FileNotFoundError")
    ELSE IF "INPUT_ACCESS_TOKEN" \notin DOMAIN e THEN Raise("KeyError")
    ELSE IF "INPUT_PIPELINE" \notin DOMAIN e THEN Raise("KeyError")
    ELSE IF ~EnvTruthy(e, "INPUT_BRANCH") /\ Branch(e).exc # ""
         THEN Raise(Branch(e).exc)
    ELSE IF ~EnvTruthyStr(e, "INPUT_COMMIT") /\ "GITHUB_SHA" \notin DOMAIN e
         THEN Raise("KeyError")
    ELSE IF "INPUT_MESSAGE" \notin DOMAIN e THEN Raise("KeyError")
    ELSE IF LoadsEnv(IF EnvTruthyStr(e, "INPUT_ENV") THEN e["INPUT_ENV"] ELSE "{}").exc # ""
         THEN Raise("JSONDecodeError")
    ELSE Ok([author |-> IF "pusher" \in DOMAIN file.event
                        THEN file.event["pusher"] ELSE EmptyDict,
             access_token |-> e["INPUT_ACCESS_TOKEN"],
             pipeline |-> e["INPUT_PIPELINE"],
             branch |-> IF EnvTruthy(e, "INPUT_BRANCH") THEN e["INPUT_BRANCH"]
                        ELSE Branch(e).val,
             commit |-> IF EnvTruthyStr(e, "INPUT_COMMIT") THEN e["INPUT_COMMIT"]
                        ELSE e["GITHUB_SHA"],
             message |-> e["INPUT_MESSAGE"],
             pull_request |-> PullRequestContextOf(file.event),
             env |-> LoadsEnv(IF EnvTruthyStr(e, "INPUT_ENV") THEN e["INPUT_ENV"]
                              ELSE "{}").val,
             is_async |-> Lower(IF "INPUT_ASYNC" \in DOMAIN e
                                THEN e["INPUT_ASYNC"] ELSE "false") = "true",
             is_test_mode |-> Lower(IF "TEST_MODE" \in DOMAIN e
                                    THEN e["TEST_MODE"] ELSE "false") = "true"])

(***************************************************************************)
(* pipeline_url                                                            *)
(***************************************************************************)
\* index of the first "/" of s, 0 when there is none
FirstSep(s) ==
    IF \E i \in 1..Len(s) : s[i] = "/"
    THEN CHOOSE i \in 1..Len(s) : s[i] = "/" /\ \A j \in 1..(i - 1) : s[j] # "/"
    ELSE 0

\* s.split("/", maxsplit=1)
Split1(s) ==
    IF FirstSep(s) = 0 THEN <<s>>
    ELSE <<SubSeq(s, 1, FirstSep(s) - 1), Drop(s, FirstSep(s))>>

\* pipeline_url without the test for an empty organization
pipeline_url_EmptyOrg(pipeline) ==
    LET parts == Split1(pipeline)
    IN  IF Len(parts) # 2 THEN Raise("ValueError")
        ELSE IF parts[2] = <<>> \/ (\E i \in 1..Len(parts[2]) : parts[2][i] = "/")
        THEN Raise("ValueError")
        ELSE Ok(<<"https://api.buildkite.com/v2/organizations/">>
                \o parts[1] \o <<"/pipelines/">> \o parts[2] \o <<"/builds">>)

\* pipeline_url without the test for a further separator in the name
pipeline_url_AnyName(pipeline) ==
    LET parts == Split1(pipeline)
    IN  IF Len(parts) # 2 \/ parts[1] = <<>> \/ parts[2] = <<>>
        THEN Raise("ValueError")
        ELSE Ok(<<"https://api.buildkite.com/v2/organizations/">>
                \o parts[1] \o <<"/pipelines/">> \o parts[2] \o <<"/builds">>)

\* unpacking a list that has not exactly two items raises ValueError
pipeline_url(pipeline) ==
    LET parts == Split1(pipeline)
    IN  IF Len(parts) # 2 THEN Raise("ValueError")
        ELSE LET organization == parts[1]
                 name == parts[2]
             IN  IF organization = <<>> \/ name = <<>>
                    \/ (\E i \in 1..Len(name) : name[i] = "/")
                 THEN Raise("ValueError")
                 ELSE Ok(<<"https://api.buildkite.com/v2/organizations/">>
                         \o organization \o <<"/pipelines/">> \o name
                         \o <<"/builds">>)

(***************************************************************************)
(* The remote API and the fixtures                                         *)
(***************************************************************************)
States == {"scheduled", "running", "passed", "failed"}
Urls == {"u1", "u2"}
FinishedAts == {JNull, JStr(""), JStr("2021-01-01T00:00:00Z")}

Descriptor(u, s) ==
    [id |-> JStr("b1"), number |-> JNum(7), url |-> JStr(u),
     web_url |-> JStr("w1"), state |-> JStr(s)]

\* build descriptors without and with the key finished_at
Descriptors ==
    {Descriptor(u, s) : u \in Urls, s \in States}
    \cup {Descriptor(u, s) @@ ("finished_at" :> f) :
              u \in Urls, s \in States, f \in FinishedAts}

\* what json.loads(res.read()) yields or raises: over the network a
\* descriptor, a transport error or a body that is not JSON; in test mode
\* the content of the fixture file, if there is one
Outcomes(ctx) ==
    {Ok(d) : d \in Descriptors}
    \cup (IF ctx.is_test_mode
          THEN {Raise("FileNotFoundError"), Raise("JSONDecodeError")}
          ELSE {Raise("URLError"), Raise("JSONDecodeError")})

\* time a call of http_send takes: up to the timeout over the network, none
\* for a fixture file
Durations(ctx) == IF ctx.is_test_mode THEN {0} ELSE {0, HttpTimeout}

(***************************************************************************)
(* State                                                                   *)
(***************************************************************************)
VARIABLES
    env,          \* os.environ
    event_file,   \* the file GITHUB_EVENT_PATH names
    pc,           \* position of main
    context,      \* main: context
    build_info,   \* main: build_info
    state,        \* main: state
    wait_url,     \* wait_for_build: url
    wait_info,    \* wait_for_build: build_info
    last_status,  \* wait_for_build: last_status
    now,          \* the clock, datetime.now()
    trace,        \* what the run did: prints, sleeps, requests, outputs
    err           \* the exception that ended the run, if any

vars == <<env, event_file, pc, context, build_info, state, wait_url,
          wait_info, last_status, now, trace, err>>

NoError == [exc |-> ""]

(***************************************************************************)
(* Helpers of main                                                         *)
(***************************************************************************)
\* a line printed to the console; its first item is the icon that starts
\* the line (a name stands for the icon)
Console(line) == [op |-> "print", line |-> line]

\* state_emoji
state_emoji(s) ==
    CASE s = "scheduled" -> "link"
      [] s = "running" -> "runner"
      [] s = "passed" -> "green heart"
      [] OTHER -> "broken heart"

\* report_build_state: the line it prints
ReportLine(info) ==
    Console(<<state_emoji(info["state"].v), "Build", info["state"].v,
            info["web_url"].v>>)

Headers(ctx) == [Authorization |-> <<"Bearer ", ctx.access_token>>]

\* trigger_pipeline: the body of the POST
Payload(ctx) ==
    LET payload == [commit |-> ctx.commit, branch |-> ctx.branch,
                    message |-> ctx.message, author |-> ctx.author,
                    env |-> ctx.env]
    IN  IF ctx.pull_request # JNull
        THEN payload @@ [pull_request_base_branch |-> ctx.pull_request.base_branch,
                         pull_request_id |-> ctx.pull_request.number,
                         pull_request_repository |-> ctx.pull_request.repository]
        ELSE payload

NoData == JNull

TriggerRequest(ctx, url) ==
    [method |-> "POST", full_url |-> url, headers |-> Headers(ctx),
     data |-> Payload(ctx)]

WaitRequest(ctx, url) ==
    [method |-> "GET", full_url |-> <<url>>, headers |-> Headers(ctx),
     data |-> NoData]

\* http_send with the body of the request left out of the echo
http_send_NoBodyEcho(req, ctx, test_response) ==
    IF ctx.is_test_mode
    THEN <<Console(<<"stub", "Stubbing HTTP request in test mode:">>),
           Console(<<"stub", req.method, req.full_url>>),
           [op |-> "open", req |-> req,
            path |-> <<"./test_responses/", test_response, ".json">>]>>
    ELSE <<[op |-> "urlopen", req |-> req, timeout |-> HttpTimeout]>>

\* http_send up to the point where the response is read: in test mode the
\* echo and the opening of the fixture, otherwise the network call
http_send(req, ctx, test_response) ==
    IF ctx.is_test_mode
    THEN <<Console(<<"stub", "Stubbing HTTP request in test mode:">>),
           Console(<<"stub", req.method, req.full_url>>)>>
         \o (IF req.data # NoData THEN <<Console(<<"stub", req.data>>)>>
             ELSE <<>>)
         \o <<[op |-> "open", req |-> req,
               path |-> <<"./test_responses/", test_response, ".json">>]>>
    ELSE <<[op |-> "urlopen", req |-> req, timeout |-> HttpTimeout]>>

IsSend(e) == e.op \in {"open", "urlopen"}

\* the calls of http_send made so far with the given method
Sends(tr, method) ==
    {i \in 1..Len(tr) : IsSend(tr[i]) /\ tr[i].req.method = method}

Polls == Cardinality(Sends(trace, "GET"))

\* str(v), as an f-string formats a value
Str(v) ==
    CASE v.t = "null" -> "None"
      [] v.t = "str" -> v.v
      [] v.t = "num" -> ToString(v.v)

\* the keys of a descriptor in the order the response lists them
KeyOrder == <<"id", "number", "url", "web_url", "state", "finished_at">>

\* json.dumps of one value, as the tokens of the text
Encode(v) ==
    CASE v.t = "null" -> <<"null">>
      [] v.t = "str" -> <<"\"", v.v, "\"">>
      [] v.t = "num" -> <<ToString(v.v)>>

\* json.dumps with the member state left out
Dumps_NoState(d) ==
    LET present == SelectSeq(KeyOrder, LAMBDA k : k \in DOMAIN d /\ k # "state")
    IN  [i \in 1..Len(present) |-> <<present[i], Encode(d[present[i]])>>]

\* json.dumps of a dict: the members present, each a key and its tokens
Dumps(d) ==
    LET present == SelectSeq(KeyOrder, LAMBDA k : k \in DOMAIN d)
    IN  [i \in 1..Len(present) |-> <<present[i], Encode(d[present[i]])>>]

Output(name, value) == [op |-> "output", name |-> name, value |-> value]

\* output_build_info: the six lines it prints
output_build_info(info) ==
    <<Output("id", Str(info["id"])),
      Output("number", Str(info["number"])),
      Output("url", Str(info["url"])),
      Output("web_url", Str(info["web_url"])),
      Output("state", Str(info["state"])),
      Output("data", Dumps(info))>>

\* the accepted states with scheduled forgotten
Accepted_NoScheduled == {"running", "passed"}

\* line 83: the states that do not fail the run
Accepted == {"scheduled", "running", "passed"}

\* an exception is raised after the run did tr; nothing catches it, so it
\* ends the run
Abort(tr, e) ==
    /\ trace' = Append(tr, [op |-> "raise", exc |-> e.exc])
    /\ pc' = "failed"
    /\ err' = e

(***************************************************************************)
(* main, one action per step                                               *)
(***************************************************************************)
\* line 72: context = ActionContext.from_env(os.environ)
ResolveContext ==
    /\ pc = "start"
    /\ LET r == from_env(env, event_file)
       IN  IF r.exc # ""
           THEN /\ Abort(trace, Raise(r.exc))
                /\ UNCHANGED context
           ELSE /\ context' = r.val
                /\ pc' = "trigger"
                /\ UNCHANGED <<err, trace>>
    /\ UNCHANGED <<env, event_file, build_info, state, wait_url, wait_info,
                   last_status, now>>

\* TriggerPipeline with the wait entered whatever the async flag says
TriggerPipeline_AlwaysWait ==
    /\ pc = "trigger"
    /\ pipeline_url(context.pipeline).exc = ""
    /\ \E out \in {o \in Outcomes(context) : o.exc = ""}, d \in Durations(context) :
          /\ now' = now + d
          /\ build_info' = out.val
          /\ state' = out.val["state"].v
          /\ trace' = (Append(trace, Console(<<"kite", "Triggering",
                                  context.pipeline, context.branch, context.commit>>))
                       \o http_send(TriggerRequest(context,
                                        pipeline_url(context.pipeline).val),
                                    context, "create_build"))
                      \o <<ReportLine(out.val)>>
          /\ pc' = "wait"
    /\ UNCHANGED <<env, event_file, context, wait_url, wait_info, last_status,
                   err>>

\* lines 74-78: the progress line, trigger_pipeline, report_build_state and
\* the choice between waiting and reporting
TriggerPipeline ==
    /\ pc = "trigger"
    /\ LET line == Console(<<"kite", "Triggering", context.pipeline, context.branch,
                             context.commit>>)
           url == pipeline_url(context.pipeline)
       IN  IF url.exc # ""
           THEN /\ Abort(Append(trace, line), Raise(url.exc))
                /\ UNCHANGED <<build_info, state, now>>
           ELSE \E out \in Outcomes(context), d \in Durations(context) :
                  LET req == TriggerRequest(context, url.val)
                      sent == Append(trace, line)
                                \o http_send(req, context, "create_build")
                  IN  /\ now' = now + d
                      /\ IF out.exc # ""
                         THEN /\ Abort(sent, Raise(out.exc))
                              /\ UNCHANGED <<build_info, state>>
                         ELSE /\ build_info' = out.val
                              /\ state' = out.val["state"].v
                              /\ trace' = Append(sent, ReportLine(out.val))
                              /\ pc' = IF context.is_async THEN "output"
                                       ELSE "wait"
                              /\ UNCHANGED err
    /\ UNCHANGED <<env, event_file, context, wait_url, wait_info, last_status>>

\* WaitStart with the outputs of the trigger descriptor emitted first
WaitStart_OutputsFirst ==
    /\ pc = "wait"
    /\ wait_url' = build_info["url"].v
    /\ last_status' = now
    /\ wait_info' = EmptyDict
    /\ trace' = (trace \o output_build_info(build_info))
                 \o <<Console(<<"hourglass", "Waiting for build to finish">>)>>
    /\ pc' = "loop"
    /\ UNCHANGED <<env, event_file, context, build_info, state, now, err>>

\* WaitStart with the loop starting from the descriptor of the trigger
WaitStart_FromTrigger ==
    /\ pc = "wait"
    /\ wait_url' = build_info["url"].v
    /\ last_status' = now
    /\ wait_info' = build_info
    /\ trace' = Append(trace, Console(<<"hourglass", "Waiting for build to finish">>))
    /\ pc' = "loop"
    /\ UNCHANGED <<env, event_file, context, build_info, state, now, err>>

\* lines 79, 106-111: wait_for_build is entered
WaitStart ==
    /\ pc = "wait"
    /\ wait_url' = build_info["url"].v
    /\ last_status' = now
    /\ wait_info' = EmptyDict
    /\ trace' = Append(trace, Console(<<"hourglass", "Waiting for build to finish">>))
    /\ pc' = "loop"
    /\ UNCHANGED <<env, event_file, context, build_info, state, now, err>>

\* Sleep with the first poll made at once, the sleep following it
Sleep_PollFirst ==
    /\ pc = "loop"
    /\ ~Truthy(Get(wait_info, "finished_at"))
    /\ Polls < MaxPolls
    /\ now' = IF Polls = 0 THEN now ELSE now + SleepSecs
    /\ trace' = IF Polls = 0 THEN trace
                ELSE Append(trace, [op |-> "sleep", secs |-> SleepSecs])
    /\ pc' = "poll"
    /\ UNCHANGED <<env, event_file, context, build_info, state, wait_url,
                   wait_info, last_status, err>>

\* the loop step with the notice timer never set again
SleepUpTo_NoReset(n) ==
    /\ pc = "loop"
    /\ ~Truthy(Get(wait_info, "finished_at"))
    /\ Polls < n
    /\ now' = now + SleepSecs
    /\ trace' = IF now' - last_status > NoticeSecs
                THEN trace \o <<[op |-> "sleep", secs |-> SleepSecs],
                                Console(<<"hourglass", "Still waiting for build to finish">>)>>
                ELSE Append(trace, [op |-> "sleep", secs |-> SleepSecs])
    /\ pc' = "poll"
    /\ UNCHANGED <<env, event_file, context, build_info, state, wait_url,
                   wait_info, last_status, err>>

\* lines 112-116: the loop goes on, sleeps and may print the notice; the
\* model follows the loop for n polls
SleepUpTo(n) ==
    /\ pc = "loop"
    /\ ~Truthy(Get(wait_info, "finished_at"))
    /\ Polls < n
    /\ now' = now + SleepSecs
    /\ IF now' - last_status > NoticeSecs
       THEN /\ trace' = trace \o <<[op |-> "sleep", secs |-> SleepSecs],
                                   Console(<<"hourglass", "Still waiting for build to finish">>)>>
            /\ last_status' = now'
       ELSE /\ trace' = Append(trace, [op |-> "sleep", secs |-> SleepSecs])
            /\ UNCHANGED last_status
    /\ pc' = "poll"
    /\ UNCHANGED <<env, event_file, context, build_info, state, wait_url,
                   wait_info, err>>

Sleep == SleepUpTo(MaxPolls)

\* the same step in the runs that are followed for longer
SleepLong == SleepUpTo(MaxNoticePolls)

\* Poll with the request sent to the url of the latest response
Poll_FollowUrl ==
    /\ pc = "poll"
    /\ \E out \in Outcomes(context), d \in Durations(context) :
          LET target == IF "url" \in DOMAIN wait_info THEN wait_info["url"].v
                        ELSE wait_url
              sent == trace \o http_send(WaitRequest(context, target),
                                         context, "build_passed")
          IN  /\ now' = now + d
              /\ IF out.exc # ""
                 THEN /\ Abort(sent, Raise(out.exc))
                      /\ UNCHANGED wait_info
                 ELSE /\ wait_info' = out.val
                      /\ trace' = sent
                      /\ pc' = "loop"
                      /\ UNCHANGED err
    /\ UNCHANGED <<env, event_file, context, build_info, state, wait_url,
                   last_status>>

\* Poll with a failed call tried again on the next iteration
Poll_Retry ==
    /\ pc = "poll"
    /\ \E out \in Outcomes(context), d \in Durations(context) :
          LET sent == trace \o http_send(WaitRequest(context, wait_url),
                                         context, "build_passed")
          IN  /\ now' = now + d
              /\ IF out.exc # ""
                 THEN /\ trace' = Append(sent, [op |-> "raise", exc |-> out.exc])
                      /\ UNCHANGED wait_info
                 ELSE /\ wait_info' = out.val
                      /\ trace' = sent
              /\ pc' = "loop"
    /\ UNCHANGED <<env, event_file, context, build_info, state, wait_url,
                   last_status, err>>

\* line 117: build_info = http_send(req, ...)
Poll ==
    /\ pc = "poll"
    /\ \E out \in Outcomes(context), d \in Durations(context) :
          LET sent == trace \o http_send(WaitRequest(context, wait_url),
                                         context, "build_passed")
          IN  /\ now' = now + d
              /\ IF out.exc # ""
                 THEN /\ Abort(sent, Raise(out.exc))
                      /\ UNCHANGED wait_info
                 ELSE /\ wait_info' = out.val
                      /\ trace' = sent
                      /\ pc' = "loop"
                      /\ UNCHANGED err
    /\ UNCHANGED <<env, event_file, context, build_info, state, wait_url,
                   last_status>>

\* WaitReturn with the state of the trigger response kept
WaitReturn_KeepState ==
    /\ pc = "loop"
    /\ Truthy(Get(wait_info, "finished_at"))
    /\ build_info' = wait_info
    /\ trace' = Append(trace, ReportLine(wait_info))
    /\ pc' = "output"
    /\ UNCHANGED <<env, event_file, context, state, wait_url, wait_info,
                   last_status, now, err>>

\* WaitReturn that also leaves the loop on a state that is not accepted
WaitReturn_OnFailingState ==
    /\ pc = "loop"
    /\ \/ Truthy(Get(wait_info, "finished_at"))
       \/ "state" \in DOMAIN wait_info /\ wait_info["state"].v \notin Accepted
    /\ build_info' = wait_info
    /\ state' = wait_info["state"].v
    /\ trace' = Append(trace, ReportLine(wait_info))
    /\ pc' = "output"
    /\ UNCHANGED <<env, event_file, context, wait_url, wait_info, last_status,
                   now, err>>

\* WaitReturn with the descriptor of the trigger response kept
WaitReturn_KeepInfo ==
    /\ pc = "loop"
    /\ Truthy(Get(wait_info, "finished_at"))
    /\ state' = wait_info["state"].v
    /\ trace' = Append(trace, ReportLine(wait_info))
    /\ pc' = "output"
    /\ UNCHANGED <<env, event_file, context, build_info, wait_url, wait_info,
                   last_status, now, err>>

\* WaitReturn with the wait given up after two polls
WaitReturn_GiveUp ==
    /\ pc = "loop"
    /\ Truthy(Get(wait_info, "finished_at")) \/ Polls >= 2
    /\ build_info' = wait_info
    /\ state' = wait_info["state"].v
    /\ trace' = Append(trace, ReportLine(wait_info))
    /\ pc' = "output"
    /\ UNCHANGED <<env, event_file, context, wait_url, wait_info, last_status,
                   now, err>>

\* lines 112, 118, 79-80: the loop ends, wait_for_build returns and the
\* state is reported
WaitReturn ==
    /\ pc = "loop"
    /\ Truthy(Get(wait_info, "finished_at"))
    /\ build_info' = wait_info
    /\ state' = wait_info["state"].v
    /\ trace' = Append(trace, ReportLine(wait_info))
    /\ pc' = "output"
    /\ UNCHANGED <<env, event_file, context, wait_url, wait_info, last_status,
                   now, err>>

\* OutputBuildInfo with the state checked before anything is printed
OutputBuildInfo_RaiseFirst ==
    /\ pc = "output"
    /\ IF state \notin Accepted
       THEN Abort(trace, [exc |-> "RuntimeError",
                          msg |-> <<"Pipeline failed with state '", state, "'">>])
       ELSE /\ trace' = trace \o output_build_info(build_info)
            /\ pc' = "check"
            /\ UNCHANGED err
    /\ UNCHANGED <<env, event_file, context, build_info, state, wait_url,
                   wait_info, last_status, now>>

\* line 82: output_build_info(build_info)
OutputBuildInfo ==
    /\ pc = "output"
    /\ trace' = trace \o output_build_info(build_info)
    /\ pc' = "check"
    /\ UNCHANGED <<env, event_file, context, build_info, state, wait_url,
                   wait_info, last_status, now, err>>

\* lines 83-84: the state decides how the run ends
CheckState ==
    /\ pc = "check"
    /\ IF state \notin Accepted
       THEN Abort(trace, [exc |-> "RuntimeError",
                          msg |-> <<"Pipeline failed with state '", state, "'">>])
       ELSE /\ pc' = "done"
            /\ UNCHANGED <<err, trace>>
    /\ UNCHANGED <<env, event_file, context, build_info, state, wait_url,
                   wait_info, last_status, now>>

Next ==
    \/ ResolveContext
    \/ TriggerPipeline
    \/ WaitStart
    \/ Sleep
    \/ Poll
    \/ WaitReturn
    \/ OutputBuildInfo
    \/ CheckState

(***************************************************************************)
(* Inputs                                                                  *)
(***************************************************************************)
\* a dict with the key k unset, or set to a value of S
Opt(k, S) == {EmptyDict} \cup {k :> v : v \in S}

PushFile == [exists |-> TRUE, event |-> [pusher |-> [name |-> "dev"]]]
PullRequestFile ==
    [exists |-> TRUE,
     event |-> [pull_request |-> [number |-> 5, base_ref |-> "main",
                                  git_url |-> "git://repo"]]]
NoFile == [exists |-> FALSE, event |-> EmptyDict]

BaseEnv ==
    [GITHUB_EVENT_PATH |-> "event.json", INPUT_ACCESS_TOKEN |-> "token",
     INPUT_MESSAGE |-> "msg", GITHUB_SHA |-> "sha1",
     GITHUB_REF |-> RefsHeads \o <<"m">>]

\* the environments of the runs explored: a well-formed and two malformed
\* pipeline identifiers, with and without the async and the test flag
RunEnvs ==
    {BaseEnv @@ ("INPUT_PIPELINE" :> p) @@ a @@ t :
        p \in {<<"a", "/", "b">>, <<"a", "b">>, <<"a", "/", "b", "/", "a">>},
        a \in Opt("INPUT_ASYNC", {"True"}),
        t \in Opt("TEST_MODE", {"true"})}

RunFiles == {PullRequestFile, NoFile}

InitWith(envs, files) ==
    /\ env \in envs
    /\ event_file \in files
    /\ pc = "start"
    /\ context = EmptyDict
    /\ build_info = EmptyDict
    /\ state = ""
    /\ wait_url = ""
    /\ wait_info = EmptyDict
    /\ last_status = 0
    /\ now = 0
    /\ trace = <<>>
    /\ err = NoError

Init == InitWith(RunEnvs, RunFiles)

Spec == Init /\ [][Next]_vars

(***************************************************************************)
(* pipeline_url over all short identifiers                                 *)
(***************************************************************************)
Chars == {"a", "b", "/"}
Strings(n) == UNION {[1..k -> Chars] : k \in 0..n}

UrlEnvs ==
    {BaseEnv @@ ("INPUT_PIPELINE" :> p) @@ t :
        p \in Strings(MaxLen), t \in Opt("TEST_MODE", {"TRUE"})}

InitUrl == InitWith(UrlEnvs, {PushFile})

NextUrl ==
    \/ ResolveContext
    \/ TriggerPipeline

SpecUrl == InitUrl /\ [][NextUrl]_vars

(***************************************************************************)
(* Context resolution over many environments                               *)
(***************************************************************************)
RefsTags == <<"r", "e", "f", "s", "/", "t", "a", "g", "s", "/">>
Main == <<"m", "a", "i", "n">>
V1 == <<"v", "1">>

Tails == UNION {[1..k -> {"m", "/"}] : k \in 0..MaxTail}

\* git refs: every prefix of refs/heads/ followed by a short tail, the tag
\* refs, refs/heads/ after a leading character, and the two refs named in
\* the documentation
Refs ==
    {SubSeq(RefsHeads, 1, k) \o t : k \in 0..Len(RefsHeads), t \in Tails}
    \cup {RefsTags \o t : t \in Tails}
    \cup {<<"x">> \o RefsHeads \o t : t \in Tails}
    \cup {RefsHeads \o Main, RefsTags \o V1, RefsHeads \o RefsHeads \o Main}

BranchEnvs ==
    {[GITHUB_EVENT_PATH |-> "event.json", INPUT_ACCESS_TOKEN |-> "token",
      INPUT_MESSAGE |-> "msg", GITHUB_SHA |-> "sha1",
      INPUT_PIPELINE |-> <<"a", "/", "b">>] @@ o @@ h @@ r :
        o \in Opt("INPUT_BRANCH", {<<>>, <<"o">>, RefsHeads \o <<"o">>}),
        h \in Opt("GITHUB_HEAD_REF", {<<>>, <<"h">>, RefsHeads \o <<"h">>}),
        r \in Opt("GITHUB_REF", Refs)}

InitEnv == InitWith(BranchEnvs, {PushFile})

NextEnv == ResolveContext

SpecEnv == InitEnv /\ [][NextEnv]_vars

(***************************************************************************)
(* The wait loop followed for longer, from one state of a run              *)
(***************************************************************************)
NoticeEnv == BaseEnv @@ ("INPUT_PIPELINE" :> <<"a", "/", "b">>)

NoticeContext == from_env(NoticeEnv, PullRequestFile).val

\* a synchronous run whose trigger has just answered running
InitNotice ==
    /\ env = NoticeEnv
    /\ event_file = PullRequestFile
    /\ pc = "wait"
    /\ context = NoticeContext
    /\ build_info = Descriptor("u1", "running")
    /\ state = "running"
    /\ wait_url = ""
    /\ wait_info = EmptyDict
    /\ last_status = 0
    /\ now = 0
    /\ trace = (<<Console(<<"kite", "Triggering", NoticeContext.pipeline,
                            NoticeContext.branch, NoticeContext.commit>>)>>
                \o http_send(TriggerRequest(NoticeContext,
                                 pipeline_url(NoticeContext.pipeline).val),
                             NoticeContext, "create_build"))
               \o <<ReportLine(Descriptor("u1", "running"))>>
    /\ err = NoError

NextNotice ==
    \/ WaitStart
    \/ SleepLong
    \/ Poll
    \/ WaitReturn

SpecNotice == InitNotice /\ [][NextNotice]_vars

\* main is one sequential thread: a step that can be taken is taken
LiveSpec == Spec /\ WF_vars(Next)

(***************************************************************************)
(* Vocabulary of the properties                                            *)
(***************************************************************************)
\* positions of the trace holding an event of the given kind
Idx(op) == {i \in 1..Len(trace) : trace[i].op = op}

\* a descriptor carries a finish marker: finished_at is there and is
\* neither null nor empty
HasFinishMarker(d) ==
    /\ "finished_at" \in DOMAIN d
    /\ d["finished_at"] # JNull
    /\ d["finished_at"] # JStr("")

Resolved == DOMAIN context # {}
SyncRun == Resolved /\ ~context.is_async
AsyncRun == Resolved /\ context.is_async

\* the status lines of report_build_state, in order
IsReport(e) ==
    /\ e.op = "print"
    /\ e.line[1] \in {"link", "runner", "green heart", "broken heart"}
Reports == SelectSeq(trace, IsReport)

\* the last thing done before position i other than printing, 0 if nothing
PrevAct(i) ==
    LET js == {j \in 1..(i - 1) : trace[j].op # "print"}
    IN  IF js = {} THEN 0 ELSE CHOOSE j \in js : \A k \in js : k <= j

\* the run is past the wait: it reports or has reported the result
PastWait ==
    \/ pc \in {"output", "check", "done"}
    \/ pc = "failed" /\ err.exc = "RuntimeError"

TransportErrors == {"URLError", "JSONDecodeError", "FileNotFoundError"}

(***************************************************************************)
(* C1                                                                      *)
(***************************************************************************)
C1_State ==
    SyncRun =>
      /\ Cardinality(Idx("sleep")) = Polls + (IF pc = "poll" THEN 1 ELSE 0)
      /\ \A i \in Idx("sleep") : trace[i].secs = 15
      /\ \A i \in Sends(trace, "GET") :
            PrevAct(i) # 0 /\ trace[PrevAct(i)].op = "sleep"
      /\ PastWait =>
            /\ Polls >= 1
            /\ HasFinishMarker(wait_info)
            /\ build_info = wait_info
            /\ Reports[Len(Reports)].line[3] = wait_info["state"].v
      /\ (pc \in {"done", "failed"} /\ PastWait
            /\ wait_info["state"].v = "passed") => pc = "done"

C1_Step ==
    Polls' # Polls =>
      /\ Polls' = Polls + 1
      /\ SyncRun
      /\ ~HasFinishMarker(wait_info)

\* C1: in a synchronous run every poll is one GET preceded by one sleep of
\* 15 units; a poll is made only while no response so far carried a finish
\* marker, so the wait ends with the first response that carries one, after
\* as many polls and sleeps as responses, and returns that response, whose
\* state is the one reported (passed ends the run in success).
C1_ExactPolls == [](C1_State) /\ [][C1_Step]_vars

\* trigger running, first poll without a finish marker, second poll passed
\* with one: two polls, two sleeps, success
C1_Witness ==
    /\ SyncRun
    /\ pc = "done"
    /\ Polls = 2
    /\ Cardinality(Idx("sleep")) = 2
    /\ Reports[1].line[3] = "running"
    /\ state = "passed"

(***************************************************************************)
(* C2                                                                      *)
(***************************************************************************)
\* C2: an async run never polls and never sleeps; its only call of
\* http_send is the one trigger POST; the outputs are those of the
\* descriptor the trigger returned, and an accepted trigger state ends the
\* run in success.
C2_AsyncNoPoll ==
    AsyncRun =>
      /\ Polls = 0
      /\ Idx("sleep") = {}
      /\ Cardinality(Sends(trace, "POST")) <= 1
      /\ \A i \in 1..Len(trace) : IsSend(trace[i]) => trace[i].req.method = "POST"
      /\ wait_info = EmptyDict
      /\ PastWait =>
            /\ Len(Reports) = 1
            /\ \A i \in Idx("output") :
                  /\ trace[i].name = "state" => trace[i].value = Reports[1].line[3]
                  /\ trace[i].name = "web_url" => trace[i].value = Reports[1].line[4]
                  /\ trace[i].name = "url" => trace[i].value = build_info["url"].v
      /\ (pc = "failed" /\ PastWait) =>
            Reports[1].line[3] \notin {"scheduled", "running", "passed"}

\* an async run whose trigger answered scheduled ended in success with its
\* outputs emitted
C2_Witness ==
    /\ AsyncRun
    /\ pc = "done"
    /\ Reports[1].line[3] = "scheduled"
    /\ Cardinality(Idx("output")) = 6
    /\ Cardinality(Sends(trace, "POST")) = 1

(***************************************************************************)
(* C3                                                                      *)
(***************************************************************************)
C3_State ==
    /\ (SyncRun /\ PastWait) => Polls >= 1
    /\ (pc = "loop" /\ Polls = 0) => ENABLED Sleep

C3_Step ==
    (pc = "loop" /\ pc' = "output") =>
        /\ Polls >= 1
        /\ build_info' = wait_info
        /\ trace[Len(trace)].op \in {"open", "urlopen"}

\* C3: the wait never returns without a poll: when it returns, at least one
\* GET has been made and the descriptor returned is the response to the
\* last GET; with no poll made yet the loop goes on whatever the trigger
\* response looked like.
C3_PollBeforeReturn == [](C3_State) /\ [][C3_Step]_vars

\* the trigger response already carried a finish marker and a failing
\* state, and the run polled all the same
C3_Witness ==
    /\ SyncRun
    /\ pc = "loop"
    /\ Polls = 1
    /\ HasFinishMarker(build_info)
    /\ build_info["state"].v = "failed"

(***************************************************************************)
(* C4                                                                      *)
(***************************************************************************)
\* C4: a run that reported its result ends in failure exactly when the
\* state of the final descriptor is none of scheduled, running, passed, and
\* the failure is the RuntimeError naming that state; otherwise it ends in
\* success.
C4_FailureIffRejected ==
    (pc \in {"done", "failed"} /\ Idx("output") # {}) =>
        LET final == build_info["state"].v
        IN  /\ (pc = "failed") <=> (final \notin {"scheduled", "running", "passed"})
            /\ pc = "failed" =>
                  /\ err = [exc |-> "RuntimeError",
                            msg |-> <<"Pipeline failed with state '", final, "'">>]
                  /\ trace[Len(trace)] = [op |-> "raise", exc |-> "RuntimeError"]
            /\ pc = "done" => err = NoError

\* a run ended in failure on the state failed
C4_Witness ==
    /\ pc = "failed"
    /\ Idx("output") # {}
    /\ build_info["state"].v = "failed"

(***************************************************************************)
(* C5                                                                      *)
(***************************************************************************)
OutputNames ==
    LET outs == SelectSeq(trace, LAMBDA e : e.op = "output")
    IN  [i \in 1..Len(outs) |-> outs[i].name]

\* C5: when the run ends with the failure for a failing state, the six
\* outputs id, number, url, web_url, state, data have all been emitted, in
\* that order, before the failure is raised, and the state output is the
\* state the failure names.
C5_OutputsBeforeFailure ==
    (pc = "failed" /\ err.exc = "RuntimeError") =>
        /\ OutputNames = <<"id", "number", "url", "web_url", "state", "data">>
        /\ trace[Len(trace)].op = "raise"
        /\ \A i \in Idx("output") :
              /\ i < Len(trace)
              /\ trace[i].name = "state" => trace[i].value = err.msg[2]

\* a synchronous run reached failed and ended in the failure
C5_Witness ==
    /\ SyncRun
    /\ pc = "failed"
    /\ err.exc = "RuntimeError"
    /\ err.msg[2] = "failed"
    /\ Polls >= 1

(***************************************************************************)
(* C6                                                                      *)
(***************************************************************************)
\* position i holds an exception raised by a call of http_send
TransportFailure(i) ==
    /\ trace[i].op = "raise"
    /\ i > 1
    /\ IsSend(trace[i - 1])

\* C6: an exception raised by a call of http_send, for the trigger or for a
\* poll, is the last thing the run does: no call, sleep or output follows
\* it, no output precedes it, and the run has ended in failure with that
\* exception.
C6_TransportFatal ==
    \A i \in 1..Len(trace) :
        TransportFailure(i) =>
            /\ i = Len(trace)
            /\ pc = "failed"
            /\ err.exc = trace[i].exc
            /\ err.exc \in TransportErrors
            /\ Idx("output") = {}

\* the second poll failed
C6_Witness ==
    /\ Len(trace) > 1
    /\ TransportFailure(Len(trace))
    /\ Polls = 2
    /\ pc = "failed"

(***************************************************************************)
(* C8                                                                      *)
(***************************************************************************)
\* C8: a run makes at most one POST and none before the context is
\* resolved; every GET comes after the POST and after the status line of
\* the trigger response, and only in a synchronous run; every output comes
\* after every call.
C8_Order ==
    /\ Cardinality(Sends(trace, "POST")) <= 1
    /\ (Sends(trace, "POST") \cup Sends(trace, "GET")) # {} => Resolved
    /\ \A g \in Sends(trace, "GET") :
          /\ SyncRun
          /\ \E q \in Sends(trace, "POST") :
                q < g /\ \E r \in (q + 1)..(g - 1) : IsReport(trace[r])
    /\ \A o \in Idx("output") :
          \A h \in Sends(trace, "POST") \cup Sends(trace, "GET") : h < o

\* a synchronous run polled twice and emitted its outputs
C8_Witness ==
    /\ SyncRun
    /\ Polls = 2
    /\ Cardinality(Sends(trace, "POST")) = 1
    /\ Cardinality(Idx("output")) = 6

(***************************************************************************)
(* C7                                                                      *)
(***************************************************************************)
C7_Continues ==
    (pc = "loop" /\ ~HasFinishMarker(wait_info)) =>
        /\ ~ENABLED WaitReturn
        /\ Polls < MaxPolls => ENABLED Sleep

C7_Step ==
    (pc = "loop" /\ pc' # "loop" /\ ~HasFinishMarker(wait_info)) => pc' = "poll"

\* C7: once a response carries a finish marker the run comes to its end;
\* as long as the responses carry none, the loop has no way out but the
\* next sleep and poll, however many polls were made (as far as the model
\* follows the loop).
C7_NoGiveUp ==
    /\ (pc = "loop" /\ HasFinishMarker(wait_info)) ~> (pc \in {"done", "failed"})
    /\ [](C7_Continues)
    /\ [][C7_Step]_vars

\* every poll the model follows was answered without a finish marker and
\* the run is still in the loop
C7_Witness ==
    /\ pc = "loop"
    /\ Polls = MaxPolls
    /\ wait_info # EmptyDict
    /\ ~HasFinishMarker(wait_info)

(***************************************************************************)
(* C9                                                                      *)
(***************************************************************************)
\* p is org/name with both parts non-empty and k the place of its only "/"
SoleSep(p, k) ==
    /\ k \in 2..(Len(p) - 1)
    /\ p[k] = "/"
    /\ \A j \in 1..Len(p) : j # k => p[j] # "/"

\* C9: once trigger_pipeline has run on a pipeline identifier, either the
\* identifier is org/name with one separator and non-empty parts and the
\* POST went to https://api.buildkite.com/v2/organizations/{org}/pipelines/
\* {name}/builds, or it is not and the run ended with a ValueError before
\* any call.
C9_PipelineUrl ==
    (Resolved /\ pc # "trigger") =>
        LET p == env["INPUT_PIPELINE"]
        IN  IF \E k \in 1..Len(p) : SoleSep(p, k)
            THEN \A k \in 1..Len(p) : SoleSep(p, k) =>
                    /\ Cardinality(Sends(trace, "POST")) = 1
                    /\ \A i \in Sends(trace, "POST") :
                          trace[i].req.full_url =
                             <<"https://api.buildkite.com/v2/organizations/">>
                             \o SubSeq(p, 1, k - 1) \o <<"/pipelines/">>
                             \o SubSeq(p, k + 1, Len(p)) \o <<"/builds">>
            ELSE /\ pc = "failed"
                 /\ err.exc = "ValueError"
                 /\ \A i \in 1..Len(trace) : ~IsSend(trace[i])

\* the POST for the identifier ab/b was made
C9_Witness ==
    /\ Resolved
    /\ env["INPUT_PIPELINE"] = <<"a", "b", "/", "b">>
    /\ Cardinality(Sends(trace, "POST")) = 1

(***************************************************************************)
(* C10                                                                     *)
(***************************************************************************)
\* the key is set to a non-empty value
Present(e, k) == k \in DOMAIN e /\ Len(e[k]) > 0

\* the ref begins with the eleven characters refs/heads/
HeadsRef(ref) ==
    /\ Len(ref) >= 11
    /\ \A i \in 1..11 :
          ref[i] = <<"r", "e", "f", "s", "/", "h", "e", "a", "d", "s", "/">>[i]

\* C10: the branch of the resolved context is the override when one is
\* present (set and not empty), else the head ref when one is present, else
\* what follows refs/heads/ when the ref begins with it, else the ref as it
\* is; refs/heads/main gives main and refs/tags/v1 gives refs/tags/v1.
C10_BranchPrecedence ==
    Resolved =>
        /\ Present(env, "INPUT_BRANCH") => context.branch = env["INPUT_BRANCH"]
        /\ (~Present(env, "INPUT_BRANCH") /\ Present(env, "GITHUB_HEAD_REF")) =>
              context.branch = env["GITHUB_HEAD_REF"]
        /\ (~Present(env, "INPUT_BRANCH") /\ ~Present(env, "GITHUB_HEAD_REF")) =>
              /\ "GITHUB_REF" \in DOMAIN env
              /\ LET ref == env["GITHUB_REF"]
                 IN  /\ HeadsRef(ref) =>
                            context.branch = [i \in 1..(Len(ref) - 11) |-> ref[i + 11]]
                     /\ ~HeadsRef(ref) => context.branch = ref
                     /\ ref = <<"r", "e", "f", "s", "/", "h", "e", "a", "d", "s", "/",
                                "m", "a", "i", "n">> => context.branch = <<"m", "a", "i", "n">>
                     /\ ref = <<"r", "e", "f", "s", "/", "t", "a", "g", "s", "/", "v", "1">>
                            => context.branch = ref

\* refs/heads/main was resolved to main with no override and no head ref
C10_Witness ==
    /\ Resolved
    /\ ~Present(env, "INPUT_BRANCH")
    /\ ~Present(env, "GITHUB_HEAD_REF")
    /\ "GITHUB_REF" \in DOMAIN env
    /\ env["GITHUB_REF"] = RefsHeads \o Main
    /\ context.branch = Main

(***************************************************************************)
(* C11                                                                     *)
(***************************************************************************)
\* the environment turns test mode on
TestModeOn ==
    /\ "TEST_MODE" \in DOMAIN env
    /\ env["TEST_MODE"] \in {"true", "True", "TRUE"}

\* C11: with test mode on no network call is made; the trigger reads the
\* fixture create_build and every poll the fixture build_passed; before a
\* fixture is opened the console shows the stub notice, then the method and
\* URL of the request, then its body if it has one (the POST has, the GET
\* has not).
C11_TestModeStubs ==
    (Resolved /\ TestModeOn) =>
        /\ Idx("urlopen") = {}
        /\ \A i \in Idx("open") :
              LET req == trace[i].req
              IN  /\ req.method = "POST" =>
                        /\ trace[i].path = <<"./test_responses/", "create_build", ".json">>
                        /\ i > 3
                        /\ trace[i - 3] = [op |-> "print",
                              line |-> <<"stub", "Stubbing HTTP request in test mode:">>]
                        /\ trace[i - 2] = [op |-> "print",
                              line |-> <<"stub", "POST", req.full_url>>]
                        /\ trace[i - 1] = [op |-> "print", line |-> <<"stub", req.data>>]
                        /\ req.data # JNull
                  /\ req.method = "GET" =>
                        /\ trace[i].path = <<"./test_responses/", "build_passed", ".json">>
                        /\ i > 2
                        /\ trace[i - 2] = [op |-> "print",
                              line |-> <<"stub", "Stubbing HTTP request in test mode:">>]
                        /\ trace[i - 1] = [op |-> "print",
                              line |-> <<"stub", "GET", req.full_url>>]
                        /\ req.data = JNull
                  /\ req.method \in {"POST", "GET"}

\* a synchronous run in test mode read create_build once and build_passed
\* twice
C11_Witness ==
    /\ Resolved
    /\ TestModeOn
    /\ Cardinality(Idx("open")) = 3
    /\ Polls = 2
    /\ pc = "loop"

(***************************************************************************)
(* C12                                                                     *)
(***************************************************************************)
\* json.loads of one value written by json.dumps
Decode(tokens) ==
    IF Len(tokens) = 3 /\ tokens[1] = "\"" /\ tokens[3] = "\"" THEN JStr(tokens[2])
    ELSE IF tokens = <<"null">> THEN JNull
    ELSE JNum(CHOOSE n \in 0..99 : ToString(n) = tokens[1])

\* json.loads of the text of an object
Loads(text) ==
    [k \in {text[i][1] : i \in 1..Len(text)} |->
        Decode(text[CHOOSE i \in 1..Len(text) : text[i][1] = k][2])]

\* the value emitted for the output of the given name
OutputValue(name) ==
    trace[CHOOSE i \in Idx("output") : trace[i].name = name].value

\* a deserialized value as the text of an output
Shown(v) ==
    IF v.t = "str" THEN v.v
    ELSE IF v.t = "num" THEN ToString(v.v)
    ELSE "None"

\* C12: once the outputs are emitted, deserializing the data output gives a
\* structure that has id, number, url, web_url and state, each equal to the
\* output of that name (a number being emitted as its decimal text).
C12_DataRoundTrip ==
    Cardinality(Idx("output")) = 6 =>
        LET back == Loads(OutputValue("data"))
        IN  \A k \in {"id", "number", "url", "web_url", "state"} :
                /\ k \in DOMAIN back
                /\ Shown(back[k]) = OutputValue(k)
                /\ back[k] = build_info[k]

\* the outputs of a finished failed build were emitted
C12_Witness ==
    /\ Cardinality(Idx("output")) = 6
    /\ OutputValue("state") = "failed"
    /\ OutputValue("number") = "7"
    /\ "finished_at" \in DOMAIN Loads(OutputValue("data"))

(***************************************************************************)
(* C13                                                                     *)
(***************************************************************************)
\* positions of the still-waiting notices
NoticeIdx ==
    {i \in Idx("print") :
        trace[i].line[1] = "hourglass"
        /\ trace[i].line[2] = "Still waiting for build to finish"}

C13_Step ==
    /\ (pc = "wait" /\ pc' = "loop") =>
          /\ last_status' = now
          /\ NoticeIdx' = NoticeIdx
    /\ (pc = "loop" /\ pc' = "poll") =>
          /\ now' = now + 15
          /\ now' - last_status > 60 =>
                /\ trace' = trace \o
                      <<[op |-> "sleep", secs |-> 15],
                        [op |-> "print",
                         line |-> <<"hourglass", "Still waiting for build to finish">>]>>
                /\ last_status' = now'
          /\ now' - last_status <= 60 =>
                /\ trace' = trace \o <<[op |-> "sleep", secs |-> 15]>>
                /\ last_status' = last_status
    /\ (pc # "wait" /\ ~(pc = "loop" /\ pc' = "poll")) =>
          /\ last_status' = last_status
          /\ NoticeIdx' = NoticeIdx

\* C13: the notice timer starts when the wait begins and is set again only
\* with a notice; an iteration prints one notice, right after its sleep of
\* 15 and before its poll, exactly when the time since the timer was set
\* exceeds 60, so that a notice comes more than 60 after the previous one
\* (or after the start of the wait); no other step prints a notice.
C13_Notices ==
    /\ [][C13_Step]_vars
    /\ [](\A i \in NoticeIdx :
             /\ i > 1
             /\ trace[i - 1].op = "sleep"
             /\ i < Len(trace) => IsSend(trace[i + 1]))
    /\ [](last_status <= now /\ (pc \in {"loop", "poll"} /\ NoticeIdx = {} =>
             last_status = 0))

\* a second notice was printed, 75 after the first
C13_Witness ==
    /\ Cardinality(NoticeIdx) = 2
    /\ pc = "poll"
    /\ Polls = 5
    /\ now = 140
    /\ last_status = 140

(***************************************************************************)
(* C14                                                                     *)
(***************************************************************************)
\* the identifier is not org/name: it has no "/" or more than one, or it
\* begins or ends with "/"
Malformed(p) ==
    \/ Cardinality({i \in 1..Len(p) : p[i] = "/"}) # 1
    \/ p[1] = "/"
    \/ p[Len(p)] = "/"

\* C14: in a run whose pipeline identifier is malformed no request is ever
\* made, nothing is slept and nothing is output; once the trigger step has
\* run, the run has ended with a ValueError raised right after the progress
\* line, which is no exception of a call.
C14_MalformedPipeline ==
    (Resolved /\ Malformed(env["INPUT_PIPELINE"])) =>
        /\ \A i \in 1..Len(trace) : trace[i].op \in {"print", "raise"}
        /\ pc \in {"trigger", "failed"}
        /\ pc = "failed" =>
              /\ err = [exc |-> "ValueError"]
              /\ Len(trace) = 2
              /\ trace[1].op = "print"
              /\ trace[2] = [op |-> "raise", exc |-> "ValueError"]
              /\ ~TransportFailure(2)

\* the run for the identifier /b has failed
C14_Witness ==
    /\ Resolved
    /\ env["INPUT_PIPELINE"] = <<"/", "b">>
    /\ pc = "failed"
    /\ err.exc = "ValueError"

(***************************************************************************)
(* C15                                                                     *)
(***************************************************************************)
C15_State ==
    /\ \A g \in Sends(trace, "GET") :
          /\ trace[g].req.full_url = <<wait_url>>
          /\ trace[g].req.data = JNull
          /\ trace[g].req.headers = [Authorization |-> <<"Bearer ", env["INPUT_ACCESS_TOKEN"]>>]
          /\ \A q \in Sends(trace, "POST") :
                trace[g].req.headers = trace[q].req.headers
    /\ pc \in {"loop", "poll"} =>
          /\ wait_url = build_info["url"].v
          /\ Len(Reports) = 1
          /\ Reports[1].line[3] = build_info["state"].v

C15_Step ==
    /\ pc # "wait" => wait_url' = wait_url
    /\ (pc = "poll" /\ pc' = "loop") =>
          /\ wait_info' \in Descriptors
          /\ build_info' = build_info
          /\ IsSend(trace'[Len(trace')])
          /\ trace'[Len(trace')].req.full_url = <<wait_url>>
    /\ (pc = "loop" /\ pc' = "output") => build_info' = wait_info

\* C15: every GET goes to the url of the trigger response (the descriptor
\* main holds while the wait goes on), with no body and with the
\* Authorization header of the POST; the target is fixed when the wait
\* begins and no poll response changes it, while each response becomes the
\* descriptor of the loop and the last one the descriptor of main.
C15_PollTarget == [](C15_State) /\ [][C15_Step]_vars

\* a poll was answered with another url than the trigger response, and
\* both polls went to the url of the trigger response
C15_Witness ==
    /\ pc = "loop"
    /\ Polls = 2
    /\ wait_url = "u1"
    /\ wait_info["url"].v = "u2"
    /\ \A g \in Sends(trace, "GET") : trace[g].req.full_url = <<"u1">>

(***************************************************************************)
(* C16                                                                     *)
(***************************************************************************)
Rejected(s) == s # "scheduled" /\ s # "running" /\ s # "passed"

C16_State ==
    SyncRun =>
        /\ \A i \in Idx("raise") :
              trace[i].exc = "RuntimeError" =>
                  /\ Polls >= 1
                  /\ \A g \in Sends(trace, "GET") : g < i
                  /\ Rejected(wait_info["state"].v)
                  /\ err.msg[2] = wait_info["state"].v
        /\ pc = "done" => (Polls >= 1 /\ ~Rejected(wait_info["state"].v))
        /\ (pc \in {"wait", "loop", "poll"} /\ Rejected(build_info["state"].v)) =>
              err = NoError

C16_Step ==
    (pc = "trigger" /\ SyncRun /\ err' = NoError) => pc' = "wait"

\* C16: in a synchronous run the trigger response leads to the wait
\* whatever its state; the failure for a state is raised only after the
\* polls, and whether the run ends in success or in that failure is decided
\* by the state of the last poll response, not by that of the trigger
\* response.
C16_DecidedAfterWait == [](C16_State) /\ [][C16_Step]_vars

\* the trigger answered failed, the finished poll passed, and the run
\* ended in success
C16_Witness ==
    /\ SyncRun
    /\ pc = "done"
    /\ Reports[1].line[3] = "failed"
    /\ wait_info["state"].v = "passed"
    /\ HasFinishMarker(wait_info)

(***************************************************************************)
(* C17                                                                     *)
(***************************************************************************)
\* the loop holds a response with a failing state and no finish marker
FailingUnfinished ==
    /\ wait_info # EmptyDict
    /\ ~HasFinishMarker(wait_info)
    /\ wait_info["state"].v \in {"failed", "canceled", "blocked"}

C17_State ==
    /\ (pc = "loop" /\ FailingUnfinished) =>
          /\ err = NoError
          /\ Idx("raise") = {}
          /\ Idx("output") = {}
          /\ Polls < MaxPolls => ENABLED Sleep
    /\ (pc = "loop" /\ HasFinishMarker(wait_info)) =>
          (ENABLED WaitReturn /\ ~ENABLED Sleep)

C17_Step ==
    (pc = "loop" /\ FailingUnfinished /\ pc' # "loop") =>
        /\ pc' = "poll"
        /\ trace'[Len(trace) + 1].op = "sleep"
        /\ err' = NoError

\* C17: a poll response with a failing state and no finish marker neither
\* ends the wait nor raises anything: the only step from there is the next
\* sleep, followed by the next poll; a response with a finish marker ends
\* the wait whatever its state.
C17_ExitOnMarkerOnly == [](C17_State) /\ [][C17_Step]_vars

\* after a response failed without a finish marker the run slept again
C17_Witness ==
    /\ pc = "poll"
    /\ Polls = 1
    /\ FailingUnfinished
    /\ Cardinality(Idx("sleep")) = 2

(***************************************************************************)
(* C18                                                                     *)
(***************************************************************************)
\* finished_at is there, and is null or empty
NullOrEmptyFinish(d) ==
    /\ "finished_at" \in DOMAIN d
    /\ d["finished_at"] \in {[t |-> "null"], [t |-> "str", v |-> ""]}

C18_State ==
    /\ (pc = "loop" /\ NullOrEmptyFinish(wait_info)) => ~ENABLED WaitReturn
    /\ (SyncRun /\ PastWait) =>
          /\ "finished_at" \in DOMAIN wait_info
          /\ wait_info["finished_at"].t = "str"
          /\ wait_info["finished_at"].v # ""

C18_Step ==
    (pc = "loop" /\ pc' # "loop"
        /\ (NullOrEmptyFinish(wait_info) \/ "finished_at" \notin DOMAIN wait_info)) =>
        /\ pc' = "poll"
        /\ trace'[Len(trace) + 1] = [op |-> "sleep", secs |-> 15]

\* C18: a response whose finished_at is null or empty is treated as one
\* without finished_at: the loop goes on with the next sleep; the wait has
\* returned only on a response whose finished_at is a non-empty string.
C18_NullOrEmptyContinues == [](C18_State) /\ [][C18_Step]_vars

\* after a response with an empty finished_at the run slept again
C18_Witness ==
    /\ pc = "poll"
    /\ Polls = 1
    /\ "finished_at" \in DOMAIN wait_info
    /\ wait_info["finished_at"] = JStr("")
    /\ Cardinality(Idx("sleep")) = 2

(***************************************************************************)
(* C19                                                                     *)
(***************************************************************************)
\* the descriptor the result comes from: the last poll response in a
\* synchronous run, the trigger response (the only one reported) otherwise
C19_State ==
    /\ \A i, j \in Idx("output") : trace[i].name = trace[j].name => i = j
    /\ Cardinality(Idx("output")) \in {0, 6}
    /\ Idx("output") # {} =>
          /\ OutputValue("state") = state
          /\ OutputValue("state") = Reports[Len(Reports)].line[3]
          /\ OutputValue("web_url") = Reports[Len(Reports)].line[4]
          /\ SyncRun =>
                /\ Len(Reports) = 2
                /\ Polls >= 1
                /\ OutputValue("state") = wait_info["state"].v
                /\ OutputValue("url") = wait_info["url"].v
          /\ AsyncRun =>
                /\ Len(Reports) = 1
                /\ Polls = 0
          /\ pc = "done" => OutputValue("state") \in {"scheduled", "running", "passed"}
          /\ pc = "failed" =>
                err = [exc |-> "RuntimeError",
                       msg |-> <<"Pipeline failed with state '",
                                 OutputValue("state"), "'">>]

C19_Step ==
    Idx("output") # {} => (Idx("output")' = Idx("output") /\ state' = state)

\* C19: the outputs are emitted at most once, all six together, and never
\* again; the state output is the state the run is judged by, that of the
\* last status line: the state of the last poll response in a synchronous
\* run and of the trigger response in an async run (where nothing else was
\* received).
C19_OneDescriptor == [](C19_State) /\ [][C19_Step]_vars

\* a synchronous run whose trigger answered running emitted failed, the
\* state of its last poll response, and failed on it
C19_Witness ==
    /\ SyncRun
    /\ pc = "failed"
    /\ Idx("output") # {}
    /\ Reports[1].line[3] = "running"
    /\ Reports[1].line[4] = "w1"
    /\ OutputValue("state") = "failed"
    /\ OutputValue("url") = "u2"
    /\ wait_url = "u1"
====
